---- MODULE Spec2Model ----
(***************************************************************************)
(* The rendering-device layer of code-vr: engine/renderer/mod.rs.          *)
(* Renderer::new, Renderer::resize, Renderer::render and create_swapchain  *)
(* as a state machine.  Every handler runs on one thread; pc is the        *)
(* position of that thread.  A failed unwrap()/expect() is a panic: the    *)
(* thread stops (pc = "panicked") and fatal names the call that failed.    *)
(* Vec indices are 1-based here (Rust index k is k + 1).                   *)
(***************************************************************************)
EXTENDS Integers, Sequences, FiniteSets, TLC

\* ---------------------------------------------------------------- bounds
MaxImages == 2        \* most images a swapchain is given by the surface
MaxRenders == 2       \* render() calls explored
MaxSwapchains == 3    \* swapchains built: one by new, the rest by resize
MaxFamilies == 2      \* queue families a physical device enumerates

\* ------------------------------------------------------ program constants
Threshold == 240
DefaultWidth == 800
DefaultHeight == 600
TimeoutSecs == 1

VARIABLES pc, fatal, config, families, caps, queue, swapchain, images, depth_buffer,
          render_pass, framebuffers, submissions, command_buffers,
          image_num, trace, frames

vars == <<pc, fatal, config, families, caps, queue, swapchain, images, depth_buffer,
          render_pass, framebuffers, submissions, command_buffers,
          image_num, trace, frames>>

\* ------------------------------------------------------------ input sets
\* Option<[u32; 2]>: None is the empty tuple.
None == <<>>

Resolutions == {<<0, 0>>, <<240, 1024>>, <<1024, 768>>}

Configs == [resolution : Resolutions, vsync : BOOLEAN]

MinExtents == {<<640, 480>>, <<1100, 100>>}

CurrentExtents == {None, <<1920, 1080>>, <<320, 200>>}

PresentModeLists == {<<"Fifo">>, <<"Immediate", "Mailbox", "Fifo">>}

FormatLists == {<<"B8G8R8A8Srgb", "R8G8B8A8Unorm">>, <<"R8G8B8A8Unorm">>}

AlphaLists == {<<"Opaque">>}

Capabilities ==
    [min_image_count : 1..MaxImages,
     min_image_extent : MinExtents,
     current_extent : CurrentExtents,
     present_modes : PresentModeLists,
     supported_composite_alpha : AlphaLists,
     supported_formats : FormatLists]

QueueFamilies == [graphics : BOOLEAN, supported : {"yes", "no", "err"}]

FamilyLists == UNION {[1..n -> QueueFamilies] : n \in 0..MaxFamilies}

AcquireErrors == {"Timeout", "OutOfDate"}

\* ------------------------------------------------------- pure functions
Range(s) == {s[i] : i \in DOMAIN s}

UnwrapOr(opt, default) == IF opt = None THEN default ELSE opt

\* Suitable that takes a failed presentability query for support.
SuitableOnError(q) == q.graphics /\ q.supported # "no"

\* q.supports_graphics() && surface.is_supported(q).unwrap_or(false)
Suitable(q) == q.graphics /\ q.supported = "yes"

\* Iterator::find: index of the first suitable family, 0 when there is none.
FindQueue(fams) ==
    IF \E i \in DOMAIN fams : Suitable(fams[i])
    THEN CHOOSE i \in DOMAIN fams :
            Suitable(fams[i]) /\ \A j \in 1..(i - 1) : ~Suitable(fams[j])
    ELSE 0

\* Dimensions with the comparison against min turned round.
DimensionsReversed(resolution, c) ==
    IF resolution[1] <= Threshold \/ resolution[2] <= Threshold
    THEN LET min == c.min_image_extent
             extent == UnwrapOr(c.current_extent, <<DefaultWidth, DefaultHeight>>)
         IN  IF extent[1] > min[1] \/ extent[2] > min[2] THEN min ELSE extent
    ELSE resolution

\* Dimensions that takes min only when both components are smaller.
DimensionsBothSmaller(resolution, c) ==
    IF resolution[1] <= Threshold \/ resolution[2] <= Threshold
    THEN LET min == c.min_image_extent
             extent == UnwrapOr(c.current_extent, <<DefaultWidth, DefaultHeight>>)
         IN  IF extent[1] < min[1] /\ extent[2] < min[2] THEN min ELSE extent
    ELSE resolution

\* Dimensions that never reads the configured resolution.
DimensionsFromSurface(resolution, c) ==
    LET min == c.min_image_extent
        extent == UnwrapOr(c.current_extent, <<DefaultWidth, DefaultHeight>>)
    IN  IF extent[1] < min[1] \/ extent[2] < min[2] THEN min ELSE extent

\* let dimensions = ... (create_swapchain)
Dimensions(resolution, c) ==
    IF resolution[1] <= Threshold \/ resolution[2] <= Threshold
    THEN LET min == c.min_image_extent
             extent == UnwrapOr(c.current_extent, <<DefaultWidth, DefaultHeight>>)
         IN  IF extent[1] < min[1] \/ extent[2] < min[2] THEN min ELSE extent
    ELSE resolution

\* Present that does not read config.graphics.vsync.
PresentIgnoringVsync(vsync, c) ==
    IF "Mailbox" \in Range(c.present_modes)
    THEN "Mailbox"
    ELSE Head(c.present_modes)

\* let present = ... (create_swapchain)
Present(vsync, c) ==
    IF vsync /\ "Mailbox" \in Range(c.present_modes)
    THEN "Mailbox"
    ELSE Head(c.present_modes)

\* NewSwapchain that always asks for a single image.
NewSwapchainOneImage(old_id, cfg, c) ==
    [id |-> old_id + 1,
     num_images |-> 1,
     format |-> c.supported_formats[1],
     dimensions |-> Dimensions(cfg.resolution, c),
     alpha |-> Head(c.supported_composite_alpha),
     present |-> Present(cfg.vsync, c)]

\* Swapchain::new(device, surface, caps.min_image_count, format, dimensions, ...)
NewSwapchain(old_id, cfg, c) ==
    [id |-> old_id + 1,
     num_images |-> c.min_image_count,
     format |-> c.supported_formats[1],
     dimensions |-> Dimensions(cfg.resolution, c),
     alpha |-> Head(c.supported_composite_alpha),
     present |-> Present(cfg.vsync, c)]

\* The images the surface hands back with a new swapchain: n of them.
SwapchainImages(sc, n) ==
    [i \in 1..n |-> [swapchain |-> sc.id, index |-> i, dimensions |-> sc.dimensions]]

\* DepthBuffer that keeps an existing depth buffer instead of allocating one.
DepthBufferCarried(old, imgs) ==
    IF old.id = 0 THEN [id |-> 1, dimensions |-> imgs[1].dimensions] ELSE old

\* AttachmentImage::transient(&device, images[0].dimensions(), D16Unorm)
DepthBuffer(old, imgs) ==
    [id |-> old.id + 1, dimensions |-> imgs[1].dimensions]

\* Framebuffers with the width used for both extent components.
FramebuffersSquare(imgs, depth, pass) ==
    [i \in 1..Len(imgs) |->
        [color |-> imgs[i], depth |-> depth.id, pass |-> pass,
         extent |-> <<imgs[i].dimensions[1], imgs[i].dimensions[1], 1>>]]

\* images.iter().map(|image| Framebuffer::new(...)).collect()
Framebuffers(imgs, depth, pass) ==
    [i \in 1..Len(imgs) |->
        [color |-> imgs[i], depth |-> depth.id, pass |-> pass,
         extent |-> <<imgs[i].dimensions[1], imgs[i].dimensions[2], 1>>]]

\* CommandBuffers that records for the first framebuffer only.
CommandBuffersFirstOnly(fbs, q) ==
    [i \in 1..1 |-> [framebuffer |-> fbs[i], family |-> q.family]]

\* framebuffers.iter().map(|framebuffer| PrimaryCommandBufferBuilder ...)
CommandBuffers(fbs, q) ==
    [i \in 1..Len(fbs) |-> [framebuffer |-> fbs[i], family |-> q.family]]

\* ----------------------------------------------------------------- Init
NoSwapchain == [id |-> 0, num_images |-> 0, format |-> "", dimensions |-> <<0, 0>>,
                alpha |-> "", present |-> ""]

NoDepth == [id |-> 0, dimensions |-> <<0, 0>>]

Init ==
    /\ pc = "uninit"
    /\ fatal = "none"
    /\ config \in Configs
    /\ families = <<>>
    /\ caps = None
    /\ queue = [family |-> 0]
    /\ swapchain = NoSwapchain
    /\ images = <<>>
    /\ depth_buffer = NoDepth
    /\ render_pass = [color |-> "", depth |-> ""]
    /\ framebuffers = <<>>
    /\ submissions = <<>>
    /\ command_buffers = <<>>
    /\ image_num = 0
    /\ trace = <<>>
    /\ frames = 0

\* A panic: the thread stops where it is, nothing else is written.
Panic(msg) ==
    /\ pc' = "panicked"
    /\ fatal' = msg

\* ------------------------------------------------------- Renderer::new
NewDevice ==
    /\ pc = "uninit"
    /\ \E devices \in 0..1, fams \in FamilyLists, ok \in BOOLEAN :
          IF devices = 0 THEN
              /\ Panic("No vulkan device is available.")
              /\ UNCHANGED <<queue, families>>
          ELSE IF FindQueue(fams) = 0 THEN
              /\ Panic("Couldn't find a graphical queue family.")
              /\ families' = fams
              /\ UNCHANGED queue
          ELSE IF ~ok THEN
              /\ Panic("failed to create device")
              /\ families' = fams
              /\ UNCHANGED queue
          ELSE
              /\ queue' = [family |-> FindQueue(fams)]
              /\ families' = fams
              /\ pc' = "new_swapchain"
              /\ UNCHANGED fatal
    /\ UNCHANGED <<config, caps, swapchain, images, depth_buffer, render_pass,
                   framebuffers, submissions, command_buffers, image_num,
                   trace, frames>>

NewCreateSwapchain ==
    /\ pc = "new_swapchain"
    /\ \/ /\ \E msg \in {"failed to get surface capabilities", "failed to create swapchain"} :
                Panic(msg)
          /\ UNCHANGED <<caps, swapchain, images, families>>
       \/ \E c \in Capabilities, n \in 1..MaxImages :
             /\ n >= NewSwapchain(0, config, c).num_images
             /\ caps' = c
             /\ families' = <<>>
             /\ swapchain' = NewSwapchain(0, config, c)
             /\ images' = SwapchainImages(swapchain', n)
             /\ pc' = "new_depth"
             /\ UNCHANGED fatal
    /\ UNCHANGED <<config, queue, depth_buffer, render_pass, framebuffers,
                   submissions, command_buffers, image_num, trace, frames>>

NewDepth ==
    /\ pc = "new_depth"
    /\ \/ /\ Panic("depth buffer")
          /\ UNCHANGED depth_buffer
       \/ /\ depth_buffer' = DepthBuffer(NoDepth, images)
          /\ pc' = "new_render_pass"
          /\ UNCHANGED fatal
    /\ UNCHANGED <<config, families, caps, queue, swapchain, images, render_pass,
                   framebuffers, submissions, command_buffers, image_num,
                   trace, frames>>

NewRenderPass ==
    /\ pc = "new_render_pass"
    /\ \/ /\ Panic("render pass")
          /\ UNCHANGED render_pass
       \/ /\ render_pass' = [color |-> swapchain.format, depth |-> "D16Unorm"]
          /\ pc' = "new_framebuffers"
          /\ UNCHANGED fatal
    /\ UNCHANGED <<config, families, caps, queue, swapchain, images, depth_buffer,
                   framebuffers, submissions, command_buffers, image_num,
                   trace, frames>>

NewFramebuffers ==
    /\ pc = "new_framebuffers"
    /\ \/ /\ Panic("framebuffer")
          /\ UNCHANGED <<framebuffers, submissions>>
       \/ /\ framebuffers' = Framebuffers(images, depth_buffer, render_pass)
          /\ submissions' = <<>>
          /\ pc' = "ready"
          /\ UNCHANGED fatal
    /\ UNCHANGED <<config, families, caps, queue, swapchain, images, depth_buffer,
                   render_pass, command_buffers, image_num, trace, frames>>

\* ---------------------------------------------------- Renderer::resize
ResizeSwapchain ==
    /\ pc = "ready"
    /\ swapchain.id < MaxSwapchains
    /\ \/ /\ \E msg \in {"failed to get surface capabilities", "failed to create swapchain"} :
                Panic(msg)
          /\ UNCHANGED <<caps, swapchain, images>>
       \/ \E c \in Capabilities, n \in 1..MaxImages :
             /\ n >= NewSwapchain(swapchain.id, config, c).num_images
             /\ caps' = c
             /\ swapchain' = NewSwapchain(swapchain.id, config, c)
             /\ images' = SwapchainImages(swapchain', n)
             /\ pc' = "resize_depth"
             /\ UNCHANGED fatal
    /\ UNCHANGED <<config, families, queue, depth_buffer, render_pass, framebuffers,
                   submissions, command_buffers, image_num, trace, frames>>

\* ResizeDepth that returns to the caller once the depth buffer is replaced.
ResizeDepthReturns ==
    /\ pc = "resize_depth"
    /\ \/ /\ Panic("depth buffer")
          /\ UNCHANGED depth_buffer
       \/ /\ depth_buffer' = DepthBuffer(depth_buffer, images)
          /\ pc' = "ready"
          /\ UNCHANGED fatal
    /\ UNCHANGED <<config, families, caps, queue, swapchain, images, render_pass,
                   framebuffers, submissions, command_buffers, image_num,
                   trace, frames>>

\* ResizeDepth that, when the allocation fails, keeps the old depth buffer
\* and goes on.
ResizeDepthFallback ==
    /\ pc = "resize_depth"
    /\ \/ /\ fatal' = "depth buffer"
          /\ pc' = "resize_framebuffers"
          /\ UNCHANGED depth_buffer
       \/ /\ depth_buffer' = DepthBuffer(depth_buffer, images)
          /\ pc' = "resize_framebuffers"
          /\ UNCHANGED fatal
    /\ UNCHANGED <<config, families, caps, queue, swapchain, images, render_pass,
                   framebuffers, submissions, command_buffers, image_num,
                   trace, frames>>

ResizeDepth ==
    /\ pc = "resize_depth"
    /\ \/ /\ Panic("depth buffer")
          /\ UNCHANGED depth_buffer
       \/ /\ depth_buffer' = DepthBuffer(depth_buffer, images)
          /\ pc' = "resize_framebuffers"
          /\ UNCHANGED fatal
    /\ UNCHANGED <<config, families, caps, queue, swapchain, images, render_pass,
                   framebuffers, submissions, command_buffers, image_num,
                   trace, frames>>

\* ResizeFramebuffers that also empties the submissions list.
ResizeFramebuffersClearing ==
    /\ pc = "resize_framebuffers"
    /\ \/ /\ Panic("framebuffer")
          /\ UNCHANGED <<framebuffers, submissions>>
       \/ /\ framebuffers' = Framebuffers(images, depth_buffer, render_pass)
          /\ submissions' = <<>>
          /\ pc' = "ready"
          /\ UNCHANGED fatal
    /\ UNCHANGED <<config, families, caps, queue, swapchain, images, depth_buffer,
                   render_pass, command_buffers, image_num, trace, frames>>

\* ResizeFramebuffers that leaves the framebuffer vector as it was.
ResizeFramebuffersKept ==
    /\ pc = "resize_framebuffers"
    /\ pc' = "ready"
    /\ UNCHANGED <<fatal, config, families, caps, queue, swapchain, images, depth_buffer,
                   render_pass, framebuffers, submissions, command_buffers,
                   image_num, trace, frames>>

ResizeFramebuffers ==
    /\ pc = "resize_framebuffers"
    /\ \/ /\ Panic("framebuffer")
          /\ UNCHANGED framebuffers
       \/ /\ framebuffers' = Framebuffers(images, depth_buffer, render_pass)
          /\ pc' = "ready"
          /\ UNCHANGED fatal
    /\ UNCHANGED <<config, families, caps, queue, swapchain, images, depth_buffer,
                   render_pass, submissions, command_buffers, image_num,
                   trace, frames>>

\* ---------------------------------------------------- Renderer::render
\* AcquireFailed that drops the frame and returns to the caller.
AcquireFailedSkipsFrame ==
    /\ pc' = "ready"
    /\ fatal' = "acquire"

\* acquire_next_image(Duration::new(1, 0)).unwrap() on Err
AcquireFailed == Panic("acquire")

RenderRecord ==
    /\ pc = "ready"
    /\ Len(submissions) < MaxRenders
    /\ command_buffers' = CommandBuffers(framebuffers, queue)
    /\ image_num' = 0
    /\ trace' = <<>>
    /\ pc' = "render_acquire"
    /\ UNCHANGED <<fatal, config, families, caps, queue, swapchain, images, depth_buffer,
                   render_pass, framebuffers, submissions, frames>>

RenderAcquire ==
    /\ pc = "render_acquire"
    /\ \/ /\ \E e \in AcquireErrors : AcquireFailed
          /\ UNCHANGED <<image_num, trace>>
       \/ \E i \in 1..Len(images) :
             /\ image_num' = i
             /\ trace' = Append(trace, [op |-> "acquire", swapchain |-> swapchain.id,
                                        image |-> i, family |-> 0])
             /\ pc' = "render_submit"
             /\ UNCHANGED fatal
    /\ UNCHANGED <<config, families, caps, queue, swapchain, images, depth_buffer,
                   render_pass, framebuffers, submissions, command_buffers, frames>>

\* Submitted that always takes the first command buffer.
SubmittedFirst(cbs, num) == cbs[1]

\* &command_buffers[image_num]: the command buffer render() hands to submit().
Submitted(cbs, num) == cbs[num]

\* Push that keeps only the newest submission.
PushReplacing(subs, s) == IF subs = <<>> THEN <<s>> ELSE [subs EXCEPT ![Len(subs)] = s]

\* self.submissions.push(...)
Push(subs, s) == Append(subs, s)

RenderSubmit ==
    /\ pc = "render_submit"
    /\ IF image_num \notin DOMAIN command_buffers THEN
          /\ Panic("index out of bounds")
          /\ UNCHANGED <<submissions, trace>>
       ELSE
          \/ /\ Panic("submit")
             /\ UNCHANGED <<submissions, trace>>
          \/ LET cb == Submitted(command_buffers, image_num) IN
             /\ submissions' = Push(submissions, [frame |-> frames + 1])
             /\ trace' = Append(trace, [op |-> "submit",
                                        swapchain |-> cb.framebuffer.color.swapchain,
                                        image |-> cb.framebuffer.color.index,
                                        family |-> queue.family])
             /\ pc' = "render_present"
             /\ UNCHANGED fatal
    /\ UNCHANGED <<config, families, caps, queue, swapchain, images, depth_buffer,
                   render_pass, framebuffers, command_buffers, image_num, frames>>

RenderPresent ==
    /\ pc = "render_present"
    /\ \/ /\ Panic("present")
          /\ UNCHANGED <<trace, frames>>
       \/ /\ trace' = Append(trace, [op |-> "present", swapchain |-> swapchain.id,
                                     image |-> image_num, family |-> queue.family])
          /\ frames' = frames + 1
          /\ pc' = "render_return"
          /\ UNCHANGED fatal
    /\ UNCHANGED <<config, families, caps, queue, swapchain, images, depth_buffer,
                   render_pass, framebuffers, submissions, command_buffers,
                   image_num>>

\* End of render(): command_buffers and image_num go out of scope.
RenderReturn ==
    /\ pc = "render_return"
    /\ command_buffers' = <<>>
    /\ image_num' = 0
    /\ trace' = <<>>
    /\ pc' = "ready"
    /\ UNCHANGED <<fatal, config, families, caps, queue, swapchain, images, depth_buffer,
                   render_pass, framebuffers, submissions, frames>>

Next ==
    \/ NewDevice
    \/ NewCreateSwapchain
    \/ NewDepth
    \/ NewRenderPass
    \/ NewFramebuffers
    \/ ResizeSwapchain
    \/ ResizeDepth
    \/ ResizeFramebuffers
    \/ RenderRecord
    \/ RenderAcquire
    \/ RenderSubmit
    \/ RenderPresent
    \/ RenderReturn

Spec == Init /\ [][Next]_vars

TypeOK == pc \in {"uninit", "new_swapchain", "new_depth", "new_render_pass",
                  "new_framebuffers", "ready", "resize_depth",
                  "resize_framebuffers", "render_acquire", "render_submit",
                  "render_present", "render_return", "panicked"}

\* ------------------------------------------------------------ properties
\* The renderer is constructed and no resize is in progress.
Ready == pc \in {"ready", "render_acquire", "render_submit", "render_present",
                 "render_return"}

Max(a, b) == IF a >= b THEN a ELSE b

Placeholder == config.resolution[1] <= Threshold /\ config.resolution[2] <= Threshold

\* C1: whenever new or a resize has completed, there is one framebuffer per
\* swapchain image and framebuffer i has the extent [width, height, 1] of
\* image i, whatever image count or extent the surface returned.
FramebuffersMatchImages ==
    Ready =>
        /\ Len(framebuffers) = Len(images)
        /\ \A i \in DOMAIN framebuffers :
              framebuffers[i].extent =
                  <<images[i].dimensions[1], images[i].dimensions[2], 1>>

\* C1 witness: two resizes have completed, the last with more images than
\* were asked for and a non-square extent.
FramebuffersMatchImagesWitness ==
    /\ pc = "ready"
    /\ swapchain.id >= 3
    /\ Len(images) > swapchain.num_images
    /\ Len(framebuffers) = Len(images)
    /\ images[1].dimensions[1] # images[1].dimensions[2]

\* C2: between calls the submissions list is as long as the number of
\* renders that completed, and every step either leaves the list alone or
\* is the submit of a render appending exactly one entry to it.
SubmissionsGrowByOne ==
    /\ [](pc = "ready" => Len(submissions) = frames)
    /\ [][\/ submissions' = submissions
          \/ /\ pc = "render_submit"
             /\ Len(submissions') = Len(submissions) + 1
             /\ SubSeq(submissions', 1, Len(submissions)) = submissions]_vars

\* C2 witness: two renders completed with a resize among them.
SubmissionsGrowByOneWitness ==
    /\ pc = "ready"
    /\ frames = 2
    /\ Len(submissions) = 2
    /\ swapchain.id >= 2

\* C3: the events of a render call are, in this order, the acquisition of an
\* image index, the submission of the command buffer of that image and the
\* presentation of that image, on the swapchain acquired from and on the
\* queue submitted to.
FrameOrder ==
    /\ Len(trace) <= 3
    /\ Len(trace) >= 1 => trace[1].op = "acquire"
    /\ Len(trace) >= 2 =>
          /\ trace[2].op = "submit"
          /\ trace[2].image = trace[1].image
          /\ trace[2].swapchain = trace[1].swapchain
    /\ Len(trace) >= 3 =>
          /\ trace[3].op = "present"
          /\ trace[3].image = trace[1].image
          /\ trace[3].swapchain = trace[1].swapchain
          /\ trace[3].family = trace[2].family

\* C3 witness: a render on a resized swapchain presented its second image.
FrameOrderWitness ==
    /\ pc = "render_return"
    /\ Len(trace) = 3
    /\ trace[3].image = 2
    /\ swapchain.id >= 2

\* C4: with current_extent undefined and both configured components <= 240,
\* the swapchain extent is the component-wise maximum of min_extent and
\* [800, 600].
UndefinedExtentIsMax ==
    (caps # None /\ caps.current_extent = None /\ Placeholder) =>
        swapchain.dimensions =
            <<Max(caps.min_image_extent[1], DefaultWidth),
              Max(caps.min_image_extent[2], DefaultHeight)>>

\* C5: with current_extent defined and >= min_extent in both components and
\* both configured components <= 240, the swapchain extent is current_extent.
CurrentExtentUsed ==
    (/\ caps # None
     /\ caps.current_extent # None
     /\ Placeholder
     /\ caps.current_extent[1] >= caps.min_image_extent[1]
     /\ caps.current_extent[2] >= caps.min_image_extent[2]) =>
        swapchain.dimensions = caps.current_extent

\* C5 witness: the scenario of the specification, after a resize.
CurrentExtentUsedWitness ==
    /\ pc = "ready"
    /\ swapchain.id >= 2
    /\ config.resolution = <<0, 0>>
    /\ caps.current_extent = <<1920, 1080>>
    /\ caps.min_image_extent = <<640, 480>>
    /\ swapchain.dimensions = <<1920, 1080>>

\* C6: with both configured components > 240, every swapchain, built by new
\* or by a resize, has exactly the configured resolution as its extent.
ConfiguredResolutionUsed ==
    (/\ swapchain.id >= 1
     /\ config.resolution[1] > Threshold
     /\ config.resolution[2] > Threshold) =>
        swapchain.dimensions = config.resolution

\* C6 witness: a resize under a surface whose minimum is wider than the
\* configured resolution and whose current extent differs from it.
ConfiguredResolutionUsedWitness ==
    /\ pc = "ready"
    /\ swapchain.id >= 2
    /\ config.resolution = <<1024, 768>>
    /\ caps.min_image_extent = <<1100, 100>>
    /\ caps.current_extent = <<1920, 1080>>
    /\ swapchain.dimensions = <<1024, 768>>

\* C7: the present mode of the swapchain is Mailbox when vsync is set and the
\* surface supports Mailbox, and the first supported present mode otherwise.
PresentModeChosen ==
    caps # None =>
        /\ (config.vsync /\ \E i \in DOMAIN caps.present_modes :
                                caps.present_modes[i] = "Mailbox")
              => swapchain.present = "Mailbox"
        /\ (~config.vsync \/ \A i \in DOMAIN caps.present_modes :
                                caps.present_modes[i] # "Mailbox")
              => swapchain.present = caps.present_modes[1]

\* C7 witness: vsync with Mailbox supported but not listed first.
PresentModeChosenWitness ==
    /\ pc = "ready"
    /\ config.vsync
    /\ caps.present_modes = <<"Immediate", "Mailbox", "Fifo">>
    /\ swapchain.present = "Mailbox"

\* C8: whenever the renderer is ready, the depth buffer has the extent of
\* the first image of the current swapchain.
DepthMatchesFirstImage ==
    Ready => depth_buffer.dimensions = images[1].dimensions

\* C8 witness: a resize completed and allocated a depth buffer of its own.
DepthMatchesFirstImageWitness ==
    /\ pc = "ready"
    /\ swapchain.id >= 2
    /\ depth_buffer.id >= 2
    /\ depth_buffer.dimensions = swapchain.dimensions

\* C9: whenever the renderer is ready, every framebuffer binds the image of
\* the current swapchain at its own index and the current depth buffer.
FramebuffersAreCurrent ==
    Ready =>
        \A i \in DOMAIN framebuffers :
            /\ i \in DOMAIN images
            /\ framebuffers[i].color = images[i]
            /\ framebuffers[i].color.swapchain = swapchain.id
            /\ framebuffers[i].depth = depth_buffer.id

\* C9 witness: after the second resize the framebuffers bind the third
\* swapchain and the third depth buffer.
FramebuffersAreCurrentWitness ==
    /\ pc = "ready"
    /\ swapchain.id = 3
    /\ depth_buffer.id = 3
    /\ Len(framebuffers) = 2
    /\ framebuffers[2].color.swapchain = 3

\* C10: a failed acquisition stops the thread for good: nothing was
\* submitted, appended or presented in that call, and no step follows a
\* panic.
AcquireFailureIsFatal ==
    /\ [](fatal = "acquire" =>
            /\ pc = "panicked"
            /\ trace = <<>>
            /\ Len(submissions) = frames)
    /\ [][pc # "panicked"]_vars

\* C10 witness: acquisition failed in the second render, after a resize.
AcquireFailureIsFatalWitness ==
    /\ fatal = "acquire"
    /\ pc = "panicked"
    /\ frames = 1
    /\ Len(submissions) = 1
    /\ swapchain.id >= 2

\* C11: new goes on to build the swapchain only with the first enumerated
\* queue family that supports graphics and that the surface reported as
\* presentable (a failed query does not count); when it stops for want of
\* such a family, none of the enumerated families qualifies and nothing of
\* the renderer has been built.
FirstSuitableFamilyChosen ==
    /\ pc = "new_swapchain" =>
          /\ queue.family \in DOMAIN families
          /\ families[queue.family].graphics
          /\ families[queue.family].supported = "yes"
          /\ \A j \in 1..(queue.family - 1) :
                ~(families[j].graphics /\ families[j].supported = "yes")
    /\ fatal = "Couldn't find a graphical queue family." =>
          /\ pc = "panicked"
          /\ \A j \in DOMAIN families :
                ~(families[j].graphics /\ families[j].supported = "yes")
          /\ queue.family = 0
          /\ swapchain.id = 0
          /\ framebuffers = <<>>
    /\ (pc \notin {"uninit", "panicked"}) => queue.family >= 1

\* C11 witness: the second family was chosen because the presentability
\* query of the first, a graphics family, failed.
FirstSuitableFamilyChosenWitness ==
    /\ pc = "new_swapchain"
    /\ Len(families) = 2
    /\ families[1] = [graphics |-> TRUE, supported |-> "err"]
    /\ queue.family = 2

\* Some component of the configured resolution is <= 240.
PlaceholderAny == config.resolution[1] <= Threshold \/ config.resolution[2] <= Threshold

\* The extent derived from the surface: current_extent, or [800, 600].
Derived == IF caps.current_extent = None THEN <<DefaultWidth, DefaultHeight>>
           ELSE caps.current_extent

\* C12: when either configured component is <= 240 the swapchain extent is
\* the derived extent clamped up to min_extent component by component.
PlaceholderExtentIsClamped ==
    (caps # None /\ PlaceholderAny) =>
        /\ swapchain.dimensions[1] = Max(Derived[1], caps.min_image_extent[1])
        /\ swapchain.dimensions[2] = Max(Derived[2], caps.min_image_extent[2])

\* C13: when either configured component is <= 240 the swapchain extent is
\* never below min_extent in either component, whether current_extent is
\* defined or not, after new and after every resize.
PlaceholderExtentAtLeastMin ==
    (caps # None /\ PlaceholderAny) =>
        /\ swapchain.dimensions[1] >= caps.min_image_extent[1]
        /\ swapchain.dimensions[2] >= caps.min_image_extent[2]

\* C13 witness: a resize under a surface whose undefined current extent
\* falls back to [800, 600], narrower than the minimum but taller than it.
PlaceholderExtentAtLeastMinWitness ==
    /\ pc = "ready"
    /\ swapchain.id >= 2
    /\ config.resolution = <<240, 1024>>
    /\ caps.current_extent = None
    /\ caps.min_image_extent = <<1100, 100>>
    /\ swapchain.dimensions = <<1100, 100>>

\* C14: once new has created the render pass, the color format of the
\* current swapchain is the color-attachment format of the render pass,
\* also after a resize under a surface that lists other formats.
FormatStaysWithRenderPass ==
    (pc \in {"new_framebuffers", "resize_depth", "resize_framebuffers"} \/ Ready) =>
        swapchain.format = render_pass.color

\* C15: every swapchain was asked for exactly the min_image_count reported
\* by the capabilities it was built from, and holds at least that many
\* images.
MinImageCountRequested ==
    caps # None =>
        /\ swapchain.num_images = caps.min_image_count
        /\ Len(images) >= caps.min_image_count

\* C15 witness: a resize under a surface that reports a minimum of two.
MinImageCountRequestedWitness ==
    /\ pc = "ready"
    /\ swapchain.id >= 2
    /\ caps.min_image_count = 2
    /\ swapchain.num_images = 2
    /\ Len(images) = 2

\* A resize is between replacing the swapchain and rebuilding the framebuffers.
Resizing == pc \in {"resize_depth", "resize_framebuffers"}

\* C16: render and resize run only on a renderer that new has completed;
\* a render or a resize starts only from the ready state; a resize under way
\* only moves on to its next step, back to ready after the framebuffers, or
\* stops; and in the ready state the images, the depth buffer and the
\* framebuffers all come from the current swapchain.
Lifecycle ==
    /\ [](Ready \/ Resizing =>
            /\ queue.family >= 1
            /\ swapchain.id >= 1
            /\ depth_buffer.id >= 1
            /\ render_pass.color # ""
            /\ framebuffers # <<>>)
    /\ [](pc = "ready" =>
            /\ \A i \in DOMAIN images :
                  /\ images[i].swapchain = swapchain.id
                  /\ images[i].dimensions = swapchain.dimensions
            /\ depth_buffer.dimensions = swapchain.dimensions
            /\ Len(framebuffers) = Len(images)
            /\ \A i \in DOMAIN framebuffers :
                  /\ framebuffers[i].color.swapchain = swapchain.id
                  /\ framebuffers[i].depth = depth_buffer.id)
    /\ [][/\ pc' \in {"render_acquire", "resize_depth"} /\ pc' # pc => pc = "ready"
          /\ pc = "resize_depth" => pc' \in {"resize_framebuffers", "panicked"}
          /\ pc = "resize_framebuffers" => pc' \in {"ready", "panicked"}]_vars

\* C16 witness: a render is under way on a renderer that has been resized.
LifecycleWitness ==
    /\ pc = "render_submit"
    /\ swapchain.id >= 2
    /\ depth_buffer.id = swapchain.id
    /\ framebuffers[1].color.swapchain = swapchain.id

CreationFailures == {"failed to get surface capabilities", "failed to create swapchain",
                     "depth buffer", "render pass", "framebuffer"}

\* C17: a failed swapchain, depth-buffer or framebuffer creation, in new or
\* in resize, stops the thread at that step: the failing step writes no
\* field of the renderer, and no step, render included, follows it.
CreationFailureIsFatal ==
    /\ [](fatal \in CreationFailures => pc = "panicked")
    /\ [][pc' = "panicked" =>
             UNCHANGED <<queue, swapchain, images, depth_buffer, render_pass,
                         framebuffers, submissions, frames>>]_vars
    /\ [][pc # "panicked"]_vars

\* C17 witness: the framebuffer rebuild of a resize failed, leaving the new
\* swapchain next to framebuffers of the old one.
CreationFailureIsFatalWitness ==
    /\ pc = "panicked"
    /\ fatal = "framebuffer"
    /\ swapchain.id >= 2
    /\ framebuffers[1].color.swapchain < swapchain.id

\* A render call is past the recording of its command buffers.
Rendering == pc \in {"render_acquire", "render_submit", "render_present", "render_return"}

\* C18: in a render, one command buffer is recorded per current framebuffer,
\* in order; the acquired index is an index of that list, the command buffer
\* at it targets the framebuffer bound to the acquired image, and the
\* indexing never goes out of bounds.
CommandBufferIndexValid ==
    /\ Rendering =>
          /\ Len(command_buffers) = Len(framebuffers)
          /\ \A i \in DOMAIN command_buffers :
                command_buffers[i].framebuffer = framebuffers[i]
    /\ pc \in {"render_submit", "render_present", "render_return"} =>
          /\ image_num >= 1
          /\ image_num <= Len(framebuffers)
          /\ image_num <= Len(command_buffers)
          /\ command_buffers[image_num].framebuffer.color = images[image_num]
          /\ command_buffers[image_num].framebuffer.color.swapchain = swapchain.id
    /\ fatal # "index out of bounds"

\* C18 witness: after a resize, a render acquired the second image and
\* submitted its command buffer.
CommandBufferIndexValidWitness ==
    /\ pc = "render_present"
    /\ swapchain.id >= 2
    /\ image_num = 2
    /\ Len(command_buffers) = 2

\* A step of resize(), a step of render().
ResizeStep == \/ pc = "ready" /\ pc' \in {"resize_depth", "panicked"}
              \/ Resizing

RenderStep == \/ pc = "ready" /\ pc' = "render_acquire"
              \/ Rendering

\* C19: no step of resize changes the queue, the render pass, the
\* configuration or the submissions list, and no step of render changes the
\* swapchain, the images, the depth buffer or the framebuffers.
FrameConditions ==
    /\ [][ResizeStep => UNCHANGED <<queue, render_pass, config, submissions, frames>>]_vars
    /\ [][RenderStep => UNCHANGED <<swapchain, images, depth_buffer, framebuffers,
                                     queue, render_pass, config>>]_vars

\* C19 witness: two resizes and two renders have completed.
FrameConditionsWitness ==
    /\ pc = "ready"
    /\ swapchain.id = 3
    /\ Len(submissions) = 2
    /\ render_pass.color # ""
====
